---- MODULE Spec2Model ----
(***************************************************************************)
(* Covariance / relatedness reference computations of                      *)
(* python/tests/test_covariance.py, modelled with exact rational           *)
(* arithmetic.  Sample indices, site indices and index pairs are 1-based   *)
(* here (Python's sample 0 is sample 1 of the model).                      *)
(***************************************************************************)
EXTENDS Integers, Sequences, FiniteSets, TLC

VARIABLES pc, entry, ts, sample_sets, indexes, cov1, cov2, cov3, cov4,
          result, error, tree_index, pair_index, cov

vars == <<pc, entry, ts, sample_sets, indexes, cov1, cov2, cov3, cov4,
          result, error, tree_index, pair_index, cov>>

\* ---------------------------------------------------------------- bounds
MaxSamples == 3
MaxSites == 2
MaxNodes == 5
MaxSeqNodes == 4
MaxTrees == 2

\* ---------------------------------------------------------- exact numbers
NaN == "nan"
NULL == -1

\* what a call raised, and what it returned
NoError == [type |-> "none", msg |-> ""]
ValueError(m) == [type |-> "ValueError", msg |-> m]
AssertionError == [type |-> "AssertionError", msg |-> ""]
NoValue == [returned |-> FALSE, value |-> <<>>]
Value(v) == [returned |-> TRUE, value |-> v]
Unset == <<>>

Abs(a) == IF a < 0 THEN -a ELSE a

RECURSIVE GCD(_, _)
GCD(a, b) == IF b = 0 THEN a ELSE GCD(b, a % b)

\* the number n/d (d # 0) in lowest terms, with a positive denominator
Rat(n, d) ==
    LET g == GCD(Abs(n), Abs(d))
        s == IF d < 0 THEN -1 ELSE 1
    IN  [num |-> (s * n) \div g, den |-> (s * d) \div g]

Zero == [num |-> 0, den |-> 1]
RAdd(a, b) == Rat(a.num * b.den + b.num * a.den, a.den * b.den)
RSub(a, b) == Rat(a.num * b.den - b.num * a.den, a.den * b.den)
RMul(a, b) == Rat(a.num * b.num, a.den * b.den)
RDivInt(a, k) == Rat(a.num, a.den * k)
RAbs(a) == [num |-> Abs(a.num), den |-> a.den]

RECURSIVE RSumSeq(_)
RSumSeq(s) == IF s = <<>> THEN Zero ELSE RAdd(Head(s), RSumSeq(Tail(s)))

RECURSIVE IntSumSeq(_)
IntSumSeq(s) == IF s = <<>> THEN 0 ELSE Head(s) + IntSumSeq(Tail(s))

\* F applied to the value of v, with v evaluated once (an assignment to a
\* local of the code)
Once(v, F(_)) == CHOOSE r \in {F(e) : e \in {v}} : TRUE

RECURSIVE Concat(_)
Concat(ss) == IF ss = <<>> THEN <<>> ELSE Head(ss) \o Concat(Tail(ss))

RECURSIVE SortedSeq(_)
SortedSeq(S) ==
    IF S = {} THEN <<>>
    ELSE LET m == CHOOSE a \in S : \A b \in S : a <= b
         IN  <<m>> \o SortedSeq(S \ {m})

\* ------------------------------------------------------- numpy / itertools
\* np.mean of one row of G (axis=1); the mean of an empty row is nan
Mean(row) == IF Len(row) = 0 THEN NaN ELSE Rat(IntSumSeq(row), Len(row))

\* itertools.combinations_with_replacement(range(n), 2), in emission order
combinations_with_replacement(n) ==
    Concat([a \in 1..n |-> [t \in 1..(n - a + 1) |-> <<a, a + t - 1>>]])

\* np.triu_indices(n): the cells of the upper triangle in row-major order
triu_indices(n) ==
    LET cells == [t \in 1..(n * n) |-> <<((t - 1) \div n) + 1, ((t - 1) % n) + 1>>]
    IN  SelectSeq(cells, LAMBDA c : c[1] <= c[2])

Position(seq, c) == CHOOSE k \in 1..Len(seq) : seq[k] = c

\* cov = np.zeros((n, n)); cov[i_upper] = values
AssignUpper(n, values) ==
    Once(triu_indices(n), LAMBDA iu :
        [i \in 1..n |-> [j \in 1..n |->
            IF i <= j THEN values[Position(iu, <<i, j>>)] ELSE Zero]])

\* (mutant) the reflection without the diagonal subtracted
Reflect_double_diagonal(n, M) ==
    [i \in 1..n |-> [j \in 1..n |-> RAdd(M[i][j], M[j][i])]]

\* cov + cov.T - np.diag(cov.diagonal())
Reflect(n, M) ==
    [i \in 1..n |-> [j \in 1..n |->
        RSub(RAdd(M[i][j], M[j][i]), IF i = j THEN M[i][i] ELSE Zero)]]

\* ---------------------------------------------------- genotype covariance
\* (mutant) a shape check that rejects a matrix with no site or no sample
naive_genotype_covariance_checked(t) ==
    LET G == t.G
        n == t.num_samples
    IN  IF Len(G) = 0 \/ n = 0
        THEN [raised |-> ValueError("empty genotype matrix"), value |-> <<>>]
        ELSE
        Once([s \in 1..Len(G) |-> Mean(G[s])], LAMBDA mean :
        Once([i \in 1..n |-> [s \in 1..Len(G) |-> RSub(Rat(G[s][i], 1), mean[s])]],
             LAMBDA Gc :
        [raised |-> NoError,
         value |-> [i \in 1..n |-> [j \in 1..n |->
                      RSumSeq([s \in 1..Len(G) |-> RMul(Gc[i][s], Gc[j][s])])]]]))

\* (mutant) centring on the mean of the whole matrix, np.mean(G)
naive_genotype_covariance_global_mean(t) ==
    LET G == t.G
        n == t.num_samples
    IN  Once(Mean(Concat(G)), LAMBDA mean :
        Once([i \in 1..n |-> [s \in 1..Len(G) |-> RSub(Rat(G[s][i], 1), mean)]],
             LAMBDA Gc :
        [raised |-> NoError,
         value |-> [i \in 1..n |-> [j \in 1..n |->
                      RSumSeq([s \in 1..Len(G) |-> RMul(Gc[i][s], Gc[j][s])])]]]))

\* naive_genotype_covariance: G = G.T - np.mean(G, axis=1); return G @ G.T
naive_genotype_covariance(t) ==
    LET G == t.G
        n == t.num_samples
    IN  Once([s \in 1..Len(G) |-> Mean(G[s])], LAMBDA mean :
        Once([i \in 1..n |-> [s \in 1..Len(G) |-> RSub(Rat(G[s][i], 1), mean[s])]],
             LAMBDA Gc :
        [raised |-> NoError,
         value |-> [i \in 1..n |-> [j \in 1..n |->
                      RSumSeq([s \in 1..Len(G) |-> RMul(Gc[i][s], Gc[j][s])])]]]))

\* -------------------------------------------------- sample-count statistics
\* the alleles of one site: the ancestral state 0 and every state a sample
\* carries; a polarised statistic leaves the ancestral allele out
SiteAlleles(row, polarised) ==
    LET present == {0} \cup {row[u] : u \in 1..Len(row)}
    IN  SortedSeq(IF polarised THEN present \ {0} ELSE present)

\* x[k] = the number of samples of sample set k that carry allele a
AlleleCounts(row, sets, a) ==
    [k \in 1..Len(sets) |-> Cardinality({u \in sets[k] : row[u] = a})]

CountVectors(row, sets, polarised) ==
    LET alleles == SiteAlleles(row, polarised)
    IN  [t \in 1..Len(alleles) |-> AlleleCounts(row, sets, alleles[t])]

\* ts.sample_count_stat(sample_sets, f, output_dim, mode="site",
\* span_normalise=False, polarised=...): f summed over the count vector of
\* every allele of every site
sample_count_stat(t, sets, f(_), output_dim, polarised) ==
    Once(Concat([s \in 1..Len(t.G) |-> CountVectors(t.G[s], sets, polarised)]),
         LAMBDA xs :
    Once([i \in 1..Len(xs) |-> f(xs[i])], LAMBDA fx :
        [k \in 1..output_dim |-> RSumSeq([i \in 1..Len(xs) |-> fx[i][k]])]))

\* ts.genetic_relatedness(sample_sets, indexes, mode="site",
\* span_normalise=False): the centred product of every index pair, summed
\* over the alleles of every site
ts_genetic_relatedness(t, sets, idx) ==
    LET f(x) ==
            Once(Rat(IntSumSeq(x), Len(sets)), LAMBDA meanx :
                [k \in 1..Len(idx) |->
                    RMul(RSub(Rat(x[idx[k][1]], 1), meanx),
                         RSub(Rat(x[idx[k][2]], 1), meanx))])
    IN  sample_count_stat(t, sets, f, Len(idx), FALSE)

\* sample_sets = [[u] for u in ts.samples()]
SingletonSets(n) == [u \in 1..n |-> {u}]

\* (mutant) the summary function without the centring
genotype_relatedness_f_uncentred(x, n) ==
    [k \in 1..(n * n) |->
        LET i == ((k - 1) \div n) + 1
            j == ((k - 1) % n) + 1
        IN  RMul(Rat(x[i], 1), Rat(x[j], 1))]

\* the summary function f of genotype_relatedness, a flattened n x n matrix
genotype_relatedness_f(x, n) ==
    Once(Rat(IntSumSeq(x), n), LAMBDA mean :
        [k \in 1..(n * n) |->
            LET i == ((k - 1) \div n) + 1
                j == ((k - 1) % n) + 1
            IN  RMul(RSub(Rat(x[i], 1), mean), RSub(Rat(x[j], 1), mean))])

\* genotype_relatedness(ts, polarised): sample_count_stat(...).reshape((n, n)) / 2
genotype_relatedness(t, polarised) ==
    LET n == t.num_samples
    IN  Once(sample_count_stat(t, SingletonSets(n),
                 LAMBDA x : genotype_relatedness_f(x, n), n * n, polarised),
             LAMBDA flat :
        [i \in 1..n |-> [j \in 1..n |-> RDivInt(flat[(i - 1) * n + j], 2)]])

\* (mutant) f without the division by 2
c_genotype_relatedness_f_no_half(x, state_dim, idx) ==
    LET sumx == IntSumSeq([k \in 1..state_dim |-> x[k]])
    IN  Once(Rat(sumx, state_dim), LAMBDA meanx :
            [k \in 1..Len(idx) |->
                RMul(RSub(Rat(x[idx[k][1]], 1), meanx),
                     RSub(Rat(x[idx[k][2]], 1), meanx))])

\* the summary function f of c_genotype_relatedness
c_genotype_relatedness_f(x, state_dim, idx) ==
    LET sumx == IntSumSeq([k \in 1..state_dim |-> x[k]])
    IN  Once(Rat(sumx, state_dim), LAMBDA meanx :
            [k \in 1..Len(idx) |->
                RDivInt(RMul(RSub(Rat(x[idx[k][1]], 1), meanx),
                             RSub(Rat(x[idx[k][2]], 1), meanx)), 2)])

\* c_genotype_relatedness(ts, sample_sets, indexes), with polarised=False
c_genotype_relatedness(t, sets, idx) ==
    sample_count_stat(t, sets,
        LAMBDA x : c_genotype_relatedness_f(x, Len(sets), idx), Len(idx), FALSE)

\* np.allclose(a, b): |a - b| <= atol + rtol * |b| in every cell, with
\* atol = 1/AtolInv and rtol = 1/RtolInv
AtolInv == 100000000
RtolInv == 100000
IsClose(a, b) ==
    LET d == RAbs(RSub(a, b))
        r == RAbs(b)
    IN  d.num * r.den
          <= (d.den * r.den + (AtolInv \div RtolInv) * r.num * d.den) \div AtolInv

allclose(n, A, B) == \A i \in 1..n : \A j \in 1..n : IsClose(A[i][j], B[i][j])

\* ------------------------------------------------------------------ trees
\* A tree is its parent array over the nodes 0..N-1; a node's time is its id,
\* so a parent is older than its children.
Nodes(N) == 0..(N - 1)
time(u) == u
tree_span(k) == k
sequence_length(t) == IntSumSeq([k \in 1..Len(t.trees) |-> tree_span(k)])

SampleSet(t) == {t.samples[k] : k \in 1..Len(t.samples)}
num_children(tree, u) == Cardinality({c \in DOMAIN tree : tree[c] = u})

RECURSIVE Ancestors(_, _)
Ancestors(tree, u) ==
    IF tree[u] = NULL THEN {u} ELSE {u} \cup Ancestors(tree, tree[u])

RootOf(tree, u) == CHOOSE a \in Ancestors(tree, u) : tree[a] = NULL

\* tree.roots: the parentless nodes that have a sample at or below them
roots(tree, t) == {RootOf(tree, u) : u \in SampleSet(t)}

\* tree.nodes(): every node at or below a root
tree_nodes(tree, t) == {u \in DOMAIN tree : RootOf(tree, u) \in roots(tree, t)}

\* tree.root, for a tree with a single root
root(tree, t) == CHOOSE r \in roots(tree, t) : TRUE

\* tree.mrca(u, v): the youngest common ancestor, NULL when there is none
mrca(tree, u, v) ==
    LET common == Ancestors(tree, u) \cap Ancestors(tree, v)
    IN  IF common = {} THEN NULL
        ELSE CHOOSE a \in common : common \subseteq Ancestors(tree, a)

\* (mutant) the check without the test for unary nodes
check_cov_tree_inputs_no_unary(tree, t) ==
    IF ~(Cardinality(roots(tree, t)) = 1)
    THEN ValueError("Trees must have one root")
    ELSE NoError

\* (mutant) the root test as "more than one root"
check_cov_tree_inputs_many_roots(tree, t) ==
    IF Cardinality(roots(tree, t)) > 1
    THEN ValueError("Trees must have one root")
    ELSE IF \E u \in tree_nodes(tree, t) : num_children(tree, u) = 1
         THEN ValueError("Unary nodes are not supported")
         ELSE NoError

check_cov_tree_inputs(tree, t) ==
    IF ~(Cardinality(roots(tree, t)) = 1)
    THEN ValueError("Trees must have one root")
    ELSE IF \E u \in tree_nodes(tree, t) : num_children(tree, u) = 1
         THEN ValueError("Unary nodes are not supported")
         ELSE NoError

zeros(n) == [i \in 1..n |-> [j \in 1..n |-> 0]]

\* (mutant) the loop body without cov[n2, n1] = cov[n1, n2]
tree_cov_step_upper_only(tree, t, c, pair) ==
    LET n1 == pair[1]
        n2 == pair[2]
        a == mrca(tree, t.samples[n1], t.samples[n2])
        v == time(root(tree, t)) - time(a)
        n == Len(t.samples)
    IN  [i \in 1..n |-> [j \in 1..n |->
            IF i = n1 /\ j = n2 THEN v ELSE c[i][j]]]

\* one pass of the loop body of naive_tree_covariance, for the pair (n1, n2)
tree_cov_step(tree, t, c, pair) ==
    LET n1 == pair[1]
        n2 == pair[2]
        a == mrca(tree, t.samples[n1], t.samples[n2])
        v == time(root(tree, t)) - time(a)
        n == Len(t.samples)
    IN  [i \in 1..n |-> [j \in 1..n |->
            IF (i = n1 /\ j = n2) \/ (i = n2 /\ j = n1) THEN v ELSE c[i][j]]]

RECURSIVE tree_cov_loop(_, _, _, _)
tree_cov_loop(tree, t, c, pairs) ==
    IF pairs = <<>> THEN c
    ELSE tree_cov_loop(tree, t, tree_cov_step(tree, t, c, Head(pairs)), Tail(pairs))

\* naive_tree_covariance(tree): the raised error, or the matrix
naive_tree_covariance(tree, t) ==
    LET n == Len(t.samples)
        e == check_cov_tree_inputs(tree, t)
    IN  IF e # NoError THEN [raised |-> e, value |-> <<>>]
        ELSE [raised |-> NoError,
              value |-> tree_cov_loop(tree, t, zeros(n),
                                      combinations_with_replacement(n))]

\* cov += naive_tree_covariance(tree) * tree.span
accumulate(n, c, m, span) ==
    [i \in 1..n |-> [j \in 1..n |-> c[i][j] + m[i][j] * span]]

\* cov / ts.sequence_length
divide(n, c, len) == [i \in 1..n |-> [j \in 1..n |-> Rat(c[i][j], len)]]

\* ----------------------------------------------------------------- inputs
\* the matrix of the worked example (one site, six samples, three alleles)
\* and the same site with two alleles
ScenarioG == << <<0, 0, 0, 0, 1, 2>> >>
ScenarioBiallelicG == << <<0, 0, 0, 0, 1, 1>> >>

\* genotype matrices of n samples: every 0/1 matrix of up to MaxSites sites,
\* and every one-site matrix with the alleles 0, 1 and 2
GenotypeMatrices(n) ==
    UNION {[1..s -> [1..n -> {0, 1}]] : s \in 0..MaxSites}
      \cup {<<row>> : row \in [1..n -> {0, 1, 2}]}

GenotypeSources ==
    UNION {{[num_samples |-> n, G |-> g, samples |-> <<>>, trees |-> <<>>] :
               g \in GenotypeMatrices(n)} : n \in 0..MaxSamples}
      \cup {[num_samples |-> Len(g[1]), G |-> g, samples |-> <<>>, trees |-> <<>>] :
              g \in {ScenarioG, ScenarioBiallelicG}}

\* the partitions of the samples 1..n into consecutive non-empty sample sets
Partitions(n) ==
    LET marks == {a \in [1..n -> 1..n] :
                     /\ a[1] = 1
                     /\ \A u \in 2..n : a[u] = a[u - 1] \/ a[u] = a[u - 1] + 1}
    IN  {[k \in 1..a[n] |-> {u \in 1..n : a[u] = k}] : a \in marks}

ParentArrays(N) ==
    {p \in [Nodes(N) -> Nodes(N) \cup {NULL}] :
        \A u \in Nodes(N) : p[u] = NULL \/ p[u] > u}

\* a tree sequence whose samples are the k youngest nodes, with the trees tr
TreeSource(k, tr) ==
    [num_samples |-> k, G |-> <<>>, samples |-> [i \in 1..k |-> i - 1], trees |-> tr]

\* the trees of a simplified tree sequence: a node with no sample at or below
\* it is in no edge
SimplifiedTrees(N, t) ==
    {p \in ParentArrays(N) :
        \A u \in Nodes(N) \ UNION {Ancestors(p, v) : v \in SampleSet(t)} :
            p[u] = NULL /\ num_children(p, u) = 0}

InitLocals ==
    /\ cov1 = Unset /\ cov2 = Unset /\ cov3 = Unset /\ cov4 = Unset
    /\ result = NoValue /\ error = NoError
    /\ tree_index = 0 /\ pair_index = 0 /\ cov = Unset

InitVerify ==
    /\ entry = "verify" /\ pc = "verify"
    /\ ts \in {t \in GenotypeSources : t.num_samples >= 1}
    /\ sample_sets = Unset /\ indexes = Unset
    /\ InitLocals

InitGenotypeCovariance ==
    /\ entry = "naive_genotype_covariance" /\ pc = "naive_genotype_covariance"
    /\ ts \in GenotypeSources
    /\ sample_sets = Unset /\ indexes = Unset
    /\ InitLocals

\* direct calls of c_genotype_relatedness are made on one-site matrices (the
\* statistic is a sum over the sites), with every partition of the samples
InitRelatedness ==
    /\ entry = "c_genotype_relatedness" /\ pc = "c_genotype_relatedness"
    /\ ts \in {t \in GenotypeSources : t.num_samples >= 1 /\ Len(t.G) = 1}
    /\ sample_sets \in Partitions(ts.num_samples)
    /\ indexes = combinations_with_replacement(Len(sample_sets))
    /\ InitLocals

InitTree ==
    /\ entry = "naive_tree_covariance" /\ pc = "naive_tree_covariance"
    /\ ts \in {TreeSource(k, <<p>>) : k \in 0..MaxNodes, p \in ParentArrays(MaxNodes)}
    /\ sample_sets = Unset /\ indexes = Unset
    /\ InitLocals

InitTs ==
    /\ entry = "naive_ts_covariance" /\ pc = "naive_ts_covariance"
    /\ ts \in {TreeSource(k, <<>>) : k \in 0..MaxSeqNodes}
    /\ sample_sets = Unset /\ indexes = Unset
    /\ InitLocals

Init == InitVerify \/ InitGenotypeCovariance \/ InitRelatedness \/ InitTree \/ InitTs

\* ---------------------------------------------------------------- actions
\* a direct call of naive_genotype_covariance(ts)
NaiveGenotypeCovariance ==
    /\ pc = "naive_genotype_covariance"
    /\ LET r == naive_genotype_covariance(ts)
       IN  IF r.raised # NoError
           THEN /\ pc' = "raised" /\ error' = r.raised /\ result' = result
           ELSE /\ pc' = "returned" /\ error' = error /\ result' = Value(r.value)
    /\ UNCHANGED <<entry, ts, sample_sets, indexes, cov1, cov2, cov3, cov4,
                   tree_index, pair_index, cov>>

\* a direct call of c_genotype_relatedness(ts, sample_sets, indexes)
CGenotypeRelatedness ==
    /\ pc = "c_genotype_relatedness"
    /\ result' = Value(c_genotype_relatedness(ts, sample_sets, indexes))
    /\ pc' = "returned"
    /\ UNCHANGED <<entry, ts, sample_sets, indexes, cov1, cov2, cov3, cov4,
                   error, tree_index, pair_index, cov>>

\* verify: cov1 = naive_genotype_covariance(ts)
VerifyCov1 ==
    /\ pc = "verify"
    /\ LET r == naive_genotype_covariance(ts)
       IN  IF r.raised # NoError
           THEN /\ pc' = "raised" /\ error' = r.raised /\ cov1' = cov1
           ELSE /\ pc' = "verify_cov2" /\ error' = error /\ cov1' = r.value
    /\ UNCHANGED <<entry, ts, sample_sets, indexes, cov2, cov3, cov4, result,
                   tree_index, pair_index, cov>>

\* verify: cov2 = genotype_relatedness(ts), then sample_sets and indexes
VerifyCov2 ==
    /\ pc = "verify_cov2"
    /\ cov2' = genotype_relatedness(ts, FALSE)
    /\ sample_sets' = SingletonSets(ts.num_samples)
    /\ indexes' = combinations_with_replacement(ts.num_samples)
    /\ pc' = "verify_cov3"
    /\ UNCHANGED <<entry, ts, cov1, cov3, cov4, result, error,
                   tree_index, pair_index, cov>>

\* verify: cov3 from ts.genetic_relatedness(...) / 2, reflected
VerifyCov3 ==
    /\ pc = "verify_cov3"
    /\ \E v \in {ts_genetic_relatedness(ts, sample_sets, indexes)} :
       \E upper \in {AssignUpper(Len(sample_sets),
                                  [k \in 1..Len(v) |-> RDivInt(v[k], 2)])} :
         cov3' = Reflect(Len(sample_sets), upper)
    /\ pc' = "verify_cov4"
    /\ UNCHANGED <<entry, ts, sample_sets, indexes, cov1, cov2, cov4, result,
                   error, tree_index, pair_index, cov>>

\* verify: cov4 from c_genotype_relatedness(ts, sample_sets, indexes), reflected
VerifyCov4 ==
    /\ pc = "verify_cov4"
    /\ \E v \in {c_genotype_relatedness(ts, sample_sets, indexes)} :
       \E upper \in {AssignUpper(Len(sample_sets), v)} :
         cov4' = Reflect(Len(sample_sets), upper)
    /\ pc' = "verify_assert"
    /\ UNCHANGED <<entry, ts, sample_sets, indexes, cov1, cov2, cov3, result,
                   error, tree_index, pair_index, cov>>

\* verify: the three np.allclose assertions
VerifyAssert ==
    /\ pc = "verify_assert"
    /\ LET n == Len(sample_sets)
       IN  IF allclose(n, cov1, cov2) /\ allclose(n, cov1, cov4)
               /\ allclose(n, cov1, cov3)
           THEN /\ pc' = "passed" /\ error' = error
           ELSE /\ pc' = "raised" /\ error' = AssertionError
    /\ UNCHANGED <<entry, ts, sample_sets, indexes, cov1, cov2, cov3, cov4,
                   result, tree_index, pair_index, cov>>

\* naive_tree_covariance(tree): samples, check_cov_tree_inputs, cov = zeros
TreeCheck ==
    /\ pc = "naive_tree_covariance"
    /\ LET e == check_cov_tree_inputs(ts.trees[1], ts)
       IN  IF e # NoError
           THEN /\ pc' = "raised" /\ error' = e
                /\ UNCHANGED <<cov, pair_index>>
           ELSE /\ pc' = "tree_loop" /\ error' = error
                /\ cov' = zeros(Len(ts.samples)) /\ pair_index' = 1
    /\ UNCHANGED <<entry, ts, sample_sets, indexes, cov1, cov2, cov3, cov4,
                   result, tree_index>>

\* naive_tree_covariance(tree): one pass of the loop over the sample pairs
TreePair ==
    /\ pc = "tree_loop"
    /\ LET pairs == combinations_with_replacement(Len(ts.samples))
       IN  /\ pair_index <= Len(pairs)
           /\ cov' = tree_cov_step(ts.trees[1], ts, cov, pairs[pair_index])
    /\ pair_index' = pair_index + 1
    /\ UNCHANGED <<pc, entry, ts, sample_sets, indexes, cov1, cov2, cov3, cov4,
                   result, error, tree_index>>

\* naive_tree_covariance(tree): return cov
TreeReturn ==
    /\ pc = "tree_loop"
    /\ pair_index > Len(combinations_with_replacement(Len(ts.samples)))
    /\ result' = Value(cov)
    /\ pc' = "returned"
    /\ UNCHANGED <<entry, ts, sample_sets, indexes, cov1, cov2, cov3, cov4,
                   error, tree_index, pair_index, cov>>

\* naive_ts_covariance(ts): samples, n, cov = zeros
TsStart ==
    /\ pc = "naive_ts_covariance"
    /\ cov' = zeros(Len(ts.samples))
    /\ tree_index' = 1
    /\ pc' = "ts_loop"
    /\ UNCHANGED <<entry, ts, sample_sets, indexes, cov1, cov2, cov3, cov4,
                   result, error, pair_index>>

\* naive_ts_covariance(ts): ts.trees() yields the next tree (ts.trees holds
\* the trees yielded so far; a tree not yet yielded cannot influence the run),
\* then cov += naive_tree_covariance(tree) * tree.span
TsTree ==
    /\ pc = "ts_loop"
    /\ tree_index = Len(ts.trees) + 1
    /\ tree_index <= MaxTrees
    /\ \E tree \in SimplifiedTrees(MaxSeqNodes, ts) :
         \E r \in {naive_tree_covariance(tree, ts)} :
             /\ ts' = [ts EXCEPT !.trees = Append(@, tree)]
             /\ IF r.raised # NoError
                THEN /\ pc' = "raised" /\ error' = r.raised
                     /\ UNCHANGED <<cov, tree_index>>
                ELSE /\ pc' = pc /\ error' = error
                     /\ cov' = accumulate(Len(ts.samples), cov, r.value, tree_span(tree_index))
                     /\ tree_index' = tree_index + 1
    /\ UNCHANGED <<entry, sample_sets, indexes, cov1, cov2, cov3, cov4,
                   result, pair_index>>

\* naive_ts_covariance(ts): ts.trees() is exhausted (a tree sequence has at
\* least one tree); return cov / ts.sequence_length
TsReturn ==
    /\ pc = "ts_loop"
    /\ tree_index > Len(ts.trees)
    /\ Len(ts.trees) >= 1
    /\ result' = Value(divide(Len(ts.samples), cov, sequence_length(ts)))
    /\ pc' = "returned"
    /\ UNCHANGED <<entry, ts, sample_sets, indexes, cov1, cov2, cov3, cov4,
                   error, tree_index, pair_index, cov>>

Next ==
    \/ NaiveGenotypeCovariance
    \/ CGenotypeRelatedness
    \/ VerifyCov1
    \/ VerifyCov2
    \/ VerifyCov3
    \/ VerifyCov4
    \/ VerifyAssert
    \/ TreeCheck
    \/ TreePair
    \/ TreeReturn
    \/ TsStart
    \/ TsTree
    \/ TsReturn

Spec == Init /\ [][Next]_vars

\* ------------------------------------------------------------- properties
Biallelic(G) == \A s \in 1..Len(G) : \A u \in 1..Len(G[s]) : G[s][u] \in {0, 1}
Symmetric(n, M) == \A i \in 1..n : \A j \in 1..n : M[i][j] = M[j][i]

\* verify has computed cov1, cov2, cov3 and cov4
VerifyComputed == entry = "verify" /\ pc \in {"verify_assert", "passed", "raised"}

\* sum over the sites of (G[s][i] - sum(G[s])/n) * (G[s][j] - sum(G[s])/n),
\* computed over the integers: n * n times the sum, then divided
CenteredProduct(G, n, i, j) ==
    Rat(IntSumSeq([s \in 1..Len(G) |->
            (n * G[s][i] - IntSumSeq(G[s])) * (n * G[s][j] - IntSumSeq(G[s]))]),
        n * n)

\* C1: for a 0/1 genotype matrix with at least one site and one sample and
\* singleton sample sets, naive_genotype_covariance, the reflected
\* c_genotype_relatedness matrix and genotype_relatedness are equal entry for
\* entry, each to the sum over sites of (x[i] - sum(x)/n) * (x[j] - sum(x)/n).
C1_PathsAgree ==
    (VerifyComputed /\ Biallelic(ts.G) /\ Len(ts.G) >= 1)
        => \A i \in 1..ts.num_samples : \A j \in 1..ts.num_samples :
             /\ cov1[i][j] = CenteredProduct(ts.G, ts.num_samples, i, j)
             /\ cov4[i][j] = cov1[i][j]
             /\ cov2[i][j] = cov1[i][j]

C1_Witness ==
    /\ VerifyComputed /\ pc = "passed"
    /\ Biallelic(ts.G) /\ Len(ts.G) = 2 /\ ts.num_samples = 3
    /\ cov4[1][2] # Zero /\ cov4[2][3] # cov4[1][2]

\* C2: every result matrix is symmetric: naive_genotype_covariance (called
\* directly and as cov1), genotype_relatedness (cov2), the reflected cov3 and
\* cov4 of verify, and the matrix naive_tree_covariance returns.
C2_Symmetric ==
    /\ (entry = "verify" /\ pc # "verify")
         => Symmetric(ts.num_samples, cov1)
    /\ (entry = "verify" /\ pc \notin {"verify", "verify_cov2"})
         => Symmetric(ts.num_samples, cov2)
    /\ (entry = "verify" /\ pc \notin {"verify", "verify_cov2", "verify_cov3"})
         => Symmetric(ts.num_samples, cov3)
    /\ VerifyComputed
         => Symmetric(ts.num_samples, cov4)
    /\ (entry = "naive_genotype_covariance" /\ pc = "returned")
         => Symmetric(ts.num_samples, result.value)
    /\ (entry = "naive_tree_covariance" /\ pc = "returned")
         => Symmetric(Len(ts.samples), result.value)

C2_Witness ==
    /\ entry = "naive_tree_covariance" /\ pc = "returned"
    /\ \E i \in 1..Len(ts.samples) : \E j \in 1..Len(ts.samples) :
         i # j /\ result.value[i][j] # 0

\* the tree has exactly one root / a node of the tree has exactly one child,
\* read off the parent array
RootCount(tree, t) ==
    Cardinality({r \in DOMAIN tree :
        tree[r] = NULL /\ \E u \in SampleSet(t) : r \in Ancestors(tree, u)})
HasUnaryNode(tree, t) ==
    \E u \in DOMAIN tree :
        /\ \E v \in SampleSet(t) : Ancestors(tree, u) \cap Ancestors(tree, v) # {}
        /\ \E c \in DOMAIN tree :
             tree[c] = u /\ \A d \in DOMAIN tree : tree[d] = u => d = c

\* C3: naive_tree_covariance raises ValueError, before any matrix entry is
\* computed and without returning, exactly when the tree has not one root
\* ("Trees must have one root") or has one root and a unary node ("Unary
\* nodes are not supported"); a single-root tree with no unary node is never
\* rejected.
C3_TreeInputsRejected ==
    (entry = "naive_tree_covariance" /\ pc # "naive_tree_covariance")
        => LET tree == ts.trees[1]
           IN  /\ RootCount(tree, ts) # 1
                    => /\ pc = "raised"
                       /\ error = ValueError("Trees must have one root")
               /\ (RootCount(tree, ts) = 1 /\ HasUnaryNode(tree, ts))
                    => /\ pc = "raised"
                       /\ error = ValueError("Unary nodes are not supported")
               /\ (RootCount(tree, ts) = 1 /\ ~HasUnaryNode(tree, ts))
                    => pc # "raised"
               /\ pc = "raised"
                    => result = NoValue /\ cov = Unset /\ pair_index = 0

C3_Witness ==
    /\ entry = "naive_tree_covariance" /\ pc = "raised"
    /\ error = ValueError("Unary nodes are not supported")
    /\ Len(ts.samples) >= 2
    /\ result = NoValue

\* C4: naive_genotype_covariance returns C with C[i][j] = the sum over the
\* sites of (G[s][i] - mean_s) * (G[s][j] - mean_s), mean_s the mean of row s,
\* with no division by the number of sites; for G = [[0,0,0,0,1,2]] the mean
\* is 1/2 and C[0][0] = 1/4, C[0][4] = -1/4, C[4][5] = 3/4.
C4_GenotypeCovariance ==
    (entry = "naive_genotype_covariance" /\ pc = "returned")
        => /\ \A i \in 1..ts.num_samples : \A j \in 1..ts.num_samples :
                result.value[i][j] = CenteredProduct(ts.G, ts.num_samples, i, j)
           /\ ts.G = ScenarioG
                => /\ Mean(ts.G[1]) = Rat(1, 2)
                   /\ result.value[1][1] = Rat(1, 4)
                   /\ result.value[1][5] = Rat(-1, 4)
                   /\ result.value[5][6] = Rat(3, 4)

C4_Witness ==
    /\ entry = "naive_genotype_covariance" /\ pc = "returned"
    /\ ts.G = ScenarioG
    /\ result.value[5][6] = Rat(3, 4)

\* C5: in verify, the m = n(n+1)/2 values computed for the index list
\* combinations_with_replacement(range(n), 2) land, after the reflection, in
\* their own cells: for indexes[k] = (i, j), M[i][j] = M[j][i] = value k, for
\* cov4 (c_genotype_relatedness) and cov3 (ts.genetic_relatedness / 2);
\* diagonal values are kept once.
C5_Reflection ==
    VerifyComputed
        => LET n == ts.num_samples
           IN  /\ 2 * Len(indexes) = n * (n + 1)
               /\ \E v4 \in {c_genotype_relatedness(ts, sample_sets, indexes)} :
                  \E v3 \in {ts_genetic_relatedness(ts, sample_sets, indexes)} :
                    \A k \in 1..Len(indexes) :
                      LET i == indexes[k][1]
                          j == indexes[k][2]
                      IN  /\ cov4[i][j] = v4[k] /\ cov4[j][i] = v4[k]
                          /\ cov3[i][j] = RDivInt(v3[k], 2)
                          /\ cov3[j][i] = RDivInt(v3[k], 2)

C5_Witness ==
    /\ VerifyComputed /\ ts.num_samples = 3
    /\ cov4[1][1] # Zero /\ cov4[1][3] # Zero /\ cov4[2][3] # cov4[1][3]
    /\ cov4[3][1] = cov4[1][3]

\* every sample carries the same allele at the (single) site
FixedSite(G) == \A u \in 1..Len(G[1]) : G[1][u] = G[1][1]

RelatednessReturned == entry = "c_genotype_relatedness" /\ pc = "returned"

\* C6: in c_genotype_relatedness a site whose count vector has
\* sum(x) = num_samples (every sample carries the allele) contributes zero to
\* every output entry, for every partition of the samples and every index pair.
C6_FixedSiteContributesZero ==
    (RelatednessReturned /\ FixedSite(ts.G))
        => \A k \in 1..Len(indexes) : result.value[k] = Zero

\* C7: for G = [[0,0,0,0,1,2]] with singleton sample sets the
\* reflected c_genotype_relatedness matrix is the naive_genotype_covariance
\* matrix, with C[0][0] = 1/4, C[0][4] = -1/4 and C[4][5] = 3/4.
C7_ScenarioReproduced ==
    (VerifyComputed /\ ts.G = ScenarioG)
        => /\ \A i \in 1..6 : \A j \in 1..6 : cov4[i][j] = cov1[i][j]
           /\ cov4[1][1] = Rat(1, 4)
           /\ cov4[1][5] = Rat(-1, 4)
           /\ cov4[5][6] = Rat(3, 4)

EmptyMatrix(t) == Len(t.G) = 0 \/ t.num_samples = 0

ValidTree(tree, t) == RootCount(tree, t) = 1 /\ ~HasUnaryNode(tree, t)

\* the sum over the trees of (time(root) - time(mrca(i, j))) * span
BranchSum(t, i, j) ==
    IntSumSeq([k \in 1..Len(t.trees) |->
        (time(RootOf(t.trees[k], t.samples[i]))
            - time(mrca(t.trees[k], t.samples[i], t.samples[j]))) * tree_span(k)])

\* C9: naive_ts_covariance raises ValueError and returns no matrix if any tree
\* of the sequence has not exactly one root or has a unary node, however many
\* valid trees precede it (the accumulated partial sum is not returned); when
\* it returns, every tree is valid and the matrix is the sum over the trees of
\* (time(root) - time(mrca(i, j))) * span, divided by the sequence length.
C9_TsCovariance ==
    (entry = "naive_ts_covariance")
        => /\ (\E k \in 1..Len(ts.trees) : ~ValidTree(ts.trees[k], ts))
                => /\ pc = "raised" /\ error.type = "ValueError"
                   /\ result = NoValue
           /\ pc = "raised"
                => /\ ~ValidTree(ts.trees[Len(ts.trees)], ts)
                   /\ result = NoValue
           /\ pc = "returned"
                => /\ \A k \in 1..Len(ts.trees) : ValidTree(ts.trees[k], ts)
                   /\ error = NoError /\ result.returned
                   /\ \A i \in 1..Len(ts.samples) : \A j \in 1..Len(ts.samples) :
                        result.value[i][j]
                            = Rat(BranchSum(ts, i, j), sequence_length(ts))

C9_Witness ==
    /\ entry = "naive_ts_covariance" /\ pc = "raised"
    /\ Len(ts.trees) = 2 /\ ValidTree(ts.trees[1], ts)
    /\ HasUnaryNode(ts.trees[2], ts)
    /\ Len(ts.samples) >= 2
    /\ \E i \in 1..Len(ts.samples) : cov[i][i] # 0
    /\ result = NoValue

Complement(x) == [k \in 1..Len(x) |-> 1 - x[k]]
Twice(a) == RAdd(a, a)

\* C10: for singleton sample sets and the 0/1 count vector x of a biallelic
\* site, the summary functions f of c_genotype_relatedness and of
\* genotype_relatedness give f(x) = f(1 - x) for every index pair; hence the
\* unpolarised statistic of the site is twice the derived-allele term:
\* c_genotype_relatedness returns 2 f(x), and genotype_relatedness, after its
\* division by 2, the derived-allele term itself.
C10_ComplementInvariant ==
    /\ (RelatednessReturned /\ Biallelic(ts.G)
          /\ sample_sets = SingletonSets(ts.num_samples))
         => LET n == ts.num_samples
                x == AlleleCounts(ts.G[1], sample_sets, 1)
            IN  \E fx \in {c_genotype_relatedness_f(x, n, indexes)} :
                \E fc \in {c_genotype_relatedness_f(Complement(x), n, indexes)} :
                  \A k \in 1..Len(indexes) :
                      fx[k] = fc[k] /\ result.value[k] = Twice(fx[k])
    /\ (VerifyComputed /\ Biallelic(ts.G) /\ Len(ts.G) = 1)
         => LET n == ts.num_samples
                x == AlleleCounts(ts.G[1], sample_sets, 1)
            IN  \E gx \in {genotype_relatedness_f(x, n)} :
                \E gc \in {genotype_relatedness_f(Complement(x), n)} :
                  \A i \in 1..n : \A j \in 1..n :
                      /\ gx[(i - 1) * n + j] = gc[(i - 1) * n + j]
                      /\ cov2[i][j] = gx[(i - 1) * n + j]

C10_Witness ==
    /\ RelatednessReturned /\ Biallelic(ts.G)
    /\ sample_sets = SingletonSets(ts.num_samples) /\ ts.num_samples = 3
    /\ result.value[1] # Zero /\ result.value[2] # Zero

====
